---------------------------- MODULE Spec2Model ----------------------------
(***************************************************************************)
(* A model of package srv (src/middleware.go): Route, Routes, Group and    *)
(* Router, their fluent Add/Wrap builders and the composition of the tree  *)
(* into a flat list of (pattern, handler) pairs, and the Redirect handler. *)
(*                                                                         *)
(* Go slices are modelled as they are: a slice value is a header (backing  *)
(* array, length) and the backing arrays live in memory, so two headers    *)
(* over one array see each other's writes.  append writes in place when    *)
(* the capacity allows and allocates a new array otherwise, with the       *)
(* capacity growth of the gc runtime (doubling, rounded up to a malloc     *)
(* size class).                                                            *)
(*                                                                         *)
(* A handler is modelled by its base handler and the chain of middleware   *)
(* wrapped around it, innermost first; a middleware is the classic         *)
(* decorator that runs its pre-logic, calls the wrapped handler and runs   *)
(* its post-logic.                                                         *)
(***************************************************************************)
EXTENDS Integers, Sequences, FiniteSets, TLC

VARIABLES
    mem,      \* the backing arrays: [routes, groups, mwares], each a sequence of arrays
    route,    \* the caller's variables of type Route
    routes,   \* the caller's variables of type Routes
    group,    \* the caller's variables of type Group
    router,   \* the caller's variables of type Router
    mux,      \* the *http.ServeMux objects: each the sequence of its registrations
    exit,     \* "" while the process runs, the fatal diagnostic once it has exited
    calls,    \* the number of calls of the package the caller has made
    last      \* the last call: its name, its operands and its result

vars == <<mem, route, routes, group, router, mux, exit, calls, last>>

-----------------------------------------------------------------------------
(* Bounds of the model. *)

\* The caller of the Route and Routes operations makes at most MaxRouteCalls calls.
MaxRouteCalls == 2

\* The caller of the Group operations makes at most MaxGroupCalls calls.
MaxGroupCalls == 5

\* The caller of the Router operations makes at most MaxRouterCalls calls.
MaxRouterCalls == 5

\* The longest middleware list a caller passes in one call.
MaxMw == 2

\* The caller adds routes to a Group or Router that holds fewer than MaxRoutes.
MaxRoutes == 4

\* The caller of Add with arguments of every type makes at most MaxAddCalls calls,
\* each with at most MaxAddArgs arguments.
MaxAddCalls == 1
MaxAddArgs == 3

\* The redirect handler serves at most MaxRequests requests.
MaxRequests == 1

\* A recursion of Group.compose deeper than any tree the caller can build without
\* a cycle never ends: the goroutine's stack overflows.
MaxDepth == MaxGroupCalls + MaxRouterCalls + 1

-----------------------------------------------------------------------------
(* The caller's inputs. *)

Patterns == {"/a", "/b"}
Mwares == {"m1", "m2"}
RouteVars == {"r", "s"}
RoutesVars == {"rs", "qs"}
GroupVars == {"a", "b", "c"}
RouterVars == {"x", "y", "z"}

\* The values a caller can pass as h to Handle, by dynamic type.
HandlerInputs ==
    { [type |-> "http.Handler", id |-> "h1"],
      [type |-> "http.HandlerFunc", id |-> "h2"],
      [type |-> "func(http.ResponseWriter, *http.Request)", id |-> "h3"],
      [type |-> "string", id |-> "h4"] }

\* Further values of types Handle has no case for: a nil interface and an int.
OtherHandlerInputs ==
    { [type |-> "<nil>", id |-> "h5"],
      [type |-> "int", id |-> "h6"] }

\* Sequences over S of length at most n.
RECURSIVE SeqUpTo(_, _)
SeqUpTo(S, n) ==
    IF n = 0 THEN {<<>>}
    ELSE LET shorter == SeqUpTo(S, n - 1)
         IN  shorter \cup {Append(q, e) : q \in shorter, e \in S}

-----------------------------------------------------------------------------
(* Handlers and middleware. *)

\* The nil http.HandlerFunc, the zero value of Route.fn.
NilFn == [base |-> "nil", chain |-> <<>>]

\* m(fn): the handler fn wrapped by middleware m.
Apply(m, fn) == [fn EXCEPT !.chain = Append(@, m)]

\* What a request to fn runs, in order.
RECURSIVE Run(_)
Run(fn) ==
    IF fn.chain = <<>> THEN <<[ev |-> "serve", by |-> fn.base]>>
    ELSE LET n == Len(fn.chain)
             m == fn.chain[n]
             inner == [fn EXCEPT !.chain = SubSeq(@, 1, n - 1)]
         IN  <<[ev |-> "pre", by |-> m]>> \o Run(inner) \o <<[ev |-> "post", by |-> m]>>

-----------------------------------------------------------------------------
(* Redirect.  A string is modelled as the sequence of its characters. *)

Localhost == <<"l", "o", "c", "a", "l", "h", "o", "s", "t">>
HttpsScheme == <<"h", "t", "t", "p", "s", ":", "/", "/">>

\* http.StatusTemporaryRedirect
StatusTemporaryRedirect == 307

\* Redirect appending "?" and the raw query whether or not there is a query.
RedirectAlwaysQuery(HTTP, HTTPS, req) ==
    LET host == IF req.Host = Localhost \o HTTP THEN Localhost \o HTTPS ELSE req.Host
    IN  [status |-> StatusTemporaryRedirect, host |-> host,
         location |-> HttpsScheme \o host \o req.Path \o <<"?">> \o req.RawQuery]

\* Redirect(HTTP, HTTPS)(res, req): the status and the Location of the response,
\* and req.Host as the handler leaves it.
Redirect(HTTP, HTTPS, req) ==
    LET host == IF req.Host = Localhost \o HTTP THEN Localhost \o HTTPS ELSE req.Host
        target == HttpsScheme \o host \o req.Path
    IN  [status |-> StatusTemporaryRedirect, host |-> host,
         location |-> IF Len(req.RawQuery) > 0 THEN target \o <<"?">> \o req.RawQuery
                      ELSE target]

-----------------------------------------------------------------------------
(* Slices and their backing arrays. *)

\* Element sizes in bytes on a 64-bit build.
MwareSize == 8
RouteSize == 24
GroupSize == 72

\* The malloc size classes of the gc runtime a slice of the model can reach.
SizeClasses ==
    {8, 16, 24, 32, 48, 64, 80, 96, 112, 128, 144, 160, 176, 192, 208, 224,
     240, 256, 288, 320, 352, 384, 416, 448, 480, 512, 576, 640, 704, 768,
     896, 1024, 1152, 1280, 1408, 1536, 1792, 2048}

Min(S) == CHOOSE x \in S : \A y \in S : x <= y

\* The bytes malloc provides for a request of an object with pointers: above 512
\* bytes the object carries an 8-byte malloc header inside its size class.
roundupsize(bytes) ==
    LET header == IF bytes > 512 THEN 8 ELSE 0
    IN  Min({c \in SizeClasses : c >= bytes + header}) - header

\* The capacity growslice gives a slice of capacity oldCap that must hold newLen.
growcap(oldCap, newLen, esize) ==
    LET newcap == IF newLen > 2 * oldCap THEN newLen ELSE 2 * oldCap
    IN  roundupsize(newcap * esize) \div esize

NilSlice == [arr |-> 0, len |-> 0]

Cap(arrs, s) == IF s.arr = 0 THEN 0 ELSE arrs[s.arr].cap

\* The elements of slice s.
Elems(arrs, s) == IF s.arr = 0 THEN <<>> ELSE SubSeq(arrs[s.arr].data, 1, s.len)

\* append(s, elems...): the arrays after it and the slice it returns.
append(arrs, s, elems, esize) ==
    LET n == s.len + Len(elems) IN
    IF elems = <<>> THEN [arrs |-> arrs, s |-> s]
    ELSE IF n <= Cap(arrs, s)
    THEN [arrs |-> [arrs EXCEPT ![s.arr].data =
                       SubSeq(@, 1, s.len) \o elems \o SubSeq(@, n + 1, Len(@))],
          s |-> [arr |-> s.arr, len |-> n]]
    ELSE [arrs |-> Append(arrs, [cap |-> growcap(Cap(arrs, s), n, esize),
                                 data |-> Elems(arrs, s) \o elems]),
          s |-> [arr |-> Len(arrs) + 1, len |-> n]]

\* A slice literal []T{elems...}: a new array of exactly that length.
literal(arrs, elems) ==
    IF elems = <<>> THEN [arrs |-> arrs, s |-> NilSlice]
    ELSE [arrs |-> Append(arrs, [cap |-> Len(elems), data |-> elems]),
          s |-> [arr |-> Len(arrs) + 1, len |-> Len(elems)]]

-----------------------------------------------------------------------------
(* Route. *)

ZeroRoute == [pattern |-> "", fn |-> NilFn]

\* The loop applying the middleware last to first.
RECURSIVE WrapFnReversed(_, _)
WrapFnReversed(fn, mw) ==
    IF mw = <<>> THEN fn ELSE Apply(Head(mw), WrapFnReversed(fn, Tail(mw)))

\* for _, fn := range mw { f = fn(f) }
RECURSIVE WrapFn(_, _)
WrapFn(fn, mw) ==
    IF mw = <<>> THEN fn ELSE WrapFn(Apply(Head(mw), fn), Tail(mw))

HandlerTypes ==
    {"http.Handler", "http.HandlerFunc", "func(http.ResponseWriter, *http.Request)"}

\* Handle with the loop over mw starting one element late.
HandleSkipsFirst(pattern, h, mw) ==
    IF h.type \in HandlerTypes
    THEN [ok |-> TRUE,
          route |-> [pattern |-> pattern,
                     fn |-> WrapFn([base |-> h.id, chain |-> <<>>],
                                   IF mw = <<>> THEN mw ELSE Tail(mw))],
          applied |-> IF mw = <<>> THEN mw ELSE Tail(mw)]
    ELSE [ok |-> FALSE, applied |-> <<>>,
          diag |-> "require either http.Handler or http.HandlerFunc got: " \o h.type]

\* Handle with the type switch after the loop over mw: an unsupported h is
\* wrapped by every middleware before the process exits.
HandleWrapsFirst(pattern, h, mw) ==
    IF h.type \in HandlerTypes
    THEN [ok |-> TRUE,
          route |-> [pattern |-> pattern,
                     fn |-> WrapFn([base |-> h.id, chain |-> <<>>], mw)],
          applied |-> mw]
    ELSE [ok |-> FALSE, applied |-> mw,
          diag |-> "require either http.Handler or http.HandlerFunc got: " \o h.type]

\* Handle(pattern, h, mw...): the Route it returns and the middleware it has
\* called to build it, or the diagnostic it exits with.
Handle(pattern, h, mw) ==
    IF h.type \in HandlerTypes
    THEN [ok |-> TRUE,
          route |-> [pattern |-> pattern,
                     fn |-> WrapFn([base |-> h.id, chain |-> <<>>], mw)],
          applied |-> mw]
    ELSE [ok |-> FALSE, applied |-> <<>>,
          diag |-> "require either http.Handler or http.HandlerFunc got: " \o h.type]

\* r.Wrap(mw...)
RouteWrap(r, mw) == [r EXCEPT !.fn = WrapFn(@, mw)]

-----------------------------------------------------------------------------
(* Routes. *)

\* for j := range s { for i := range mw { s[j].fn = mw[i](s[j].fn) } }:
\* the route arrays after the loop has written every element of s in place.
WrapElems(arrs, s, mw) ==
    IF s.arr = 0 THEN arrs
    ELSE LET old == arrs[s.arr].data
         IN  [arrs EXCEPT ![s.arr].data =
                 [j \in 1..Len(old) |->
                     IF j <= s.len THEN [old[j] EXCEPT !.fn = WrapFn(old[j].fn, mw)]
                     ELSE old[j]]]

\* r.Wrap(mw...) on Routes: the memory after it and the Routes it returns.
RoutesWrap(M, r, mw) ==
    [mem |-> [M EXCEPT !.routes = WrapElems(@, r, mw)], s |-> r]

-----------------------------------------------------------------------------
(* Group. *)

ZeroGroup == [groups |-> NilSlice, routes |-> NilSlice, wrap |-> NilSlice]

\* Group.Wrap applying mw to the routes the Group holds now instead of storing it.
GroupWrapEager(M, g, mw) ==
    [mem |-> [M EXCEPT !.routes = WrapElems(@, g.routes, mw)], g |-> g]

\* g.Wrap(mw...): the memory after it and the Group it returns.
GroupWrap(M, g, mw) ==
    LET a == append(M.mwares, g.wrap, mw, MwareSize)
    IN  [mem |-> [M EXCEPT !.mwares = a.arrs], g |-> [g EXCEPT !.wrap = a.s]]

\* One iteration of the loop of Add whose case string falls through without exiting.
AddOneSkipsString(M, c, v, isRouter) ==
    CASE v.type = "[]Group" ->
           LET a == append(M.groups, c.groups, Elems(M.groups, v.val), GroupSize)
           IN  [mem |-> [M EXCEPT !.groups = a.arrs], c |-> [c EXCEPT !.groups = a.s],
                diag |-> ""]
      [] v.type = "Group" ->
           LET a == append(M.groups, c.groups, <<v.val>>, GroupSize)
           IN  [mem |-> [M EXCEPT !.groups = a.arrs], c |-> [c EXCEPT !.groups = a.s],
                diag |-> ""]
      [] v.type = "[]Route" ->
           LET a == append(M.routes, c.routes, Elems(M.routes, v.val), RouteSize)
           IN  [mem |-> [M EXCEPT !.routes = a.arrs], c |-> [c EXCEPT !.routes = a.s],
                diag |-> ""]
      [] v.type = "Route" ->
           LET a == append(M.routes, c.routes, <<v.val>>, RouteSize)
           IN  [mem |-> [M EXCEPT !.routes = a.arrs], c |-> [c EXCEPT !.routes = a.s],
                diag |-> ""]
      [] v.type = "http.HandlerFunc" /\ isRouter ->
           [mem |-> M, c |-> c, diag |-> "use srv.Handle() to add endpoint"]
      [] v.type = "string" ->
           [mem |-> M, c |-> c, diag |-> ""]
      [] OTHER ->
           [mem |-> M, c |-> c,
            diag |-> "unknown type: " \o v.type \o (IF isRouter THEN " " \o v.val ELSE "")]

\* One iteration of the loop of Add over an argument v, for a Group or a Router c.
\* isRouter selects the cases of Router.Add.
AddOne(M, c, v, isRouter) ==
    CASE v.type = "[]Group" ->
           LET a == append(M.groups, c.groups, Elems(M.groups, v.val), GroupSize)
           IN  [mem |-> [M EXCEPT !.groups = a.arrs], c |-> [c EXCEPT !.groups = a.s],
                diag |-> ""]
      [] v.type = "Group" ->
           LET a == append(M.groups, c.groups, <<v.val>>, GroupSize)
           IN  [mem |-> [M EXCEPT !.groups = a.arrs], c |-> [c EXCEPT !.groups = a.s],
                diag |-> ""]
      [] v.type = "[]Route" ->
           LET a == append(M.routes, c.routes, Elems(M.routes, v.val), RouteSize)
           IN  [mem |-> [M EXCEPT !.routes = a.arrs], c |-> [c EXCEPT !.routes = a.s],
                diag |-> ""]
      [] v.type = "Route" ->
           LET a == append(M.routes, c.routes, <<v.val>>, RouteSize)
           IN  [mem |-> [M EXCEPT !.routes = a.arrs], c |-> [c EXCEPT !.routes = a.s],
                diag |-> ""]
      [] v.type = "http.HandlerFunc" /\ isRouter ->
           [mem |-> M, c |-> c, diag |-> "use srv.Handle() to add endpoint"]
      [] v.type = "string" ->
           [mem |-> M, c |-> c,
            diag |-> IF isRouter THEN "use srv.Handle() to add endpoint"
                     ELSE "use srv.Handle() to add an endpoint"]
      [] OTHER ->
           [mem |-> M, c |-> c,
            diag |-> "unknown type: " \o v.type \o (IF isRouter THEN " " \o v.val ELSE "")]

\* for _, v := range v { switch ... }: the loop stops where log.Fatal exits.
RECURSIVE AddAll(_, _, _, _)
AddAll(M, c, v, isRouter) ==
    IF v = <<>> THEN [mem |-> M, c |-> c, diag |-> ""]
    ELSE LET one == AddOne(M, c, Head(v), isRouter)
         IN  IF one.diag # "" THEN one
             ELSE AddAll(one.mem, one.c, Tail(v), isRouter)

\* g.Add(v...): the memory after it, the Group it returns, the diagnostic if it exits.
GroupAdd(M, g, v) == AddAll(M, g, v, FALSE)

\* g.compose() with d stack frames left: the memory after it, the slice it
\* returns, and whether it returned (it does not when the recursion never ends).
RECURSIVE compose(_, _, _)
RECURSIVE composeGroups(_, _, _, _)
RECURSIVE appendComposed(_, _, _, _)
RECURSIVE composeRest(_, _, _, _)

\* The rest of the loop, once append has returned a for rs.
composeRest(M, a, gs, d) ==
    composeGroups([M EXCEPT !.routes = a.arrs], a.s, gs, d)

\* rs = append(rs, group.compose()...) for the result c of group.compose(), then
\* the rest of the loop over gs.
appendComposed(c, rs, gs, d) ==
    IF ~c.ok THEN c
    ELSE composeRest(c.mem, append(c.mem.routes, rs, Elems(c.mem.routes, c.s), RouteSize),
                     gs, d)

\* for _, group := range gs { rs = append(rs, group.compose()...) }
composeGroups(M, rs, gs, d) ==
    IF gs = <<>> THEN [mem |-> M, s |-> rs, ok |-> TRUE]
    ELSE appendComposed(compose(M, Head(gs), d - 1), rs, Tail(gs), d)

\* for i := range g.routes { for _, fn := range g.wrap { ... } }; return g.routes
\* for the result f of the loop over the sub-groups.
wrapComposed(f, wrap) ==
    IF ~f.ok THEN f
    ELSE [mem |-> [f.mem EXCEPT !.routes = WrapElems(@, f.s, wrap)],
          s |-> f.s, ok |-> TRUE]

compose(M, g, d) ==
    IF d = 0 THEN [mem |-> M, s |-> NilSlice, ok |-> FALSE]
    ELSE wrapComposed(composeGroups(M, g.routes, Elems(M.groups, g.groups), d),
                      Elems(M.mwares, g.wrap))

\* What the caller can observe of Group g: its routes, its sub-groups (to depth d)
\* and its middleware, read through its slices.
RECURSIVE View(_, _, _)
View(M, g, d) ==
    IF d = 0 THEN [routes |-> <<>>, groups |-> <<>>, wrap |-> <<"...">>]
    ELSE LET gs == Elems(M.groups, g.groups)
         IN  [routes |-> Elems(M.routes, g.routes),
              groups |-> [i \in 1..Len(gs) |-> View(M, gs[i], d - 1)],
              wrap |-> Elems(M.mwares, g.wrap)]

-----------------------------------------------------------------------------
(* Router. *)

\* NewRouter(): a Router over the new ServeMux m.
NewRouter(m) == [mux |-> m, groups |-> NilSlice, routes |-> NilSlice, wrap |-> NilSlice]

\* r.Set(mux)
Set(r, m) == [r EXCEPT !.mux = m]

\* r.Wrap(mw...): the memory after it and the Router it returns.
RouterWrap(M, r, mw) ==
    LET a == append(M.mwares, r.wrap, mw, MwareSize)
    IN  [mem |-> [M EXCEPT !.mwares = a.arrs], r |-> [r EXCEPT !.wrap = a.s]]

\* r.Add(v...): the memory after it, the Router it returns, the diagnostic if it exits.
RouterAdd(M, r, v) == AddAll(M, r, v, TRUE)

\* mux.HandleFunc(pattern, fn) of net/http: the panic it raises, "" when it
\* registers the pair.
HandleFuncPanic(regs, r) ==
    IF r.pattern = "" THEN "http: invalid pattern"
    ELSE IF r.fn = NilFn THEN "http: nil handler"
    ELSE IF \E i \in 1..Len(regs) : regs[i].pattern = r.pattern
    THEN "http: multiple registrations for " \o r.pattern
    ELSE ""

\* for i := range rs { mux.HandleFunc(rs[i].pattern, rs[i].fn) } on a mux that
\* holds regs: the registrations after it, the index of the route whose
\* registration panicked (Len(rs) + 1 when none did) and the panic.
Register(regs, rs) ==
    LET bad == {j \in 1..Len(rs) : HandleFuncPanic(regs \o SubSeq(rs, 1, j - 1), rs[j]) # ""}
        stop == IF bad = {} THEN Len(rs) + 1 ELSE Min(bad)
        done == regs \o SubSeq(rs, 1, stop - 1)
    IN  [regs |-> done, stop |-> stop,
         diag |-> IF bad = {} THEN "" ELSE HandleFuncPanic(done, rs[stop])]

\* for j := range s { for _, fn := range wrap { s[j].fn = fn(s[j].fn) };
\*                    mux.HandleFunc(s[j].pattern, s[j].fn) }
\* for the outcome g of the registrations: the routes after the one whose
\* registration panicked are left unwrapped.
WrapAndRegister(arrs, s, wrap, g) ==
    [arrs |-> WrapElems(arrs, [s EXCEPT !.len = Min({g.stop, s.len})], wrap),
     regs |-> g.regs, diag |-> g.diag]

\* The end of r.Compose for the Router r1, the flat list f and the outcome w of
\* the loop that wraps and registers.
ComposeRegistered(muxes, r1, f, w) ==
    [mem |-> [f.mem EXCEPT !.routes = w.arrs],
     muxes |-> IF r1.mux = 0 THEN muxes ELSE [muxes EXCEPT ![r1.mux] = w.regs],
     s |-> f.s, mux |-> r1.mux, diag |-> w.diag]

\* The loop of r.Compose registering each handler before it wraps it with the
\* Router's middleware.
ComposeFlatRegistersFirst(muxes, r1, f, wrap) ==
    IF ~f.ok
    THEN [mem |-> f.mem, muxes |-> muxes, s |-> NilSlice, mux |-> 0,
          diag |-> "stack overflow"]
    ELSE ComposeRegistered(muxes, r1, f,
             WrapAndRegister(f.mem.routes, f.s, wrap,
                 Register(IF r1.mux = 0 THEN <<>> ELSE muxes[r1.mux],
                          Elems(f.mem.routes, f.s))))

\* The loop of r.Compose over the flat list f: on a nil mux the first route is
\* wrapped and r.mux.HandleFunc dereferences nil.
ComposeFlat(muxes, r1, f, wrap) ==
    IF ~f.ok
    THEN [mem |-> f.mem, muxes |-> muxes, s |-> NilSlice, mux |-> 0,
          diag |-> "stack overflow"]
    ELSE IF r1.mux = 0 /\ f.s.len > 0
    THEN [mem |-> [f.mem EXCEPT !.routes = WrapElems(@, [f.s EXCEPT !.len = 1], wrap)],
          muxes |-> muxes, s |-> f.s, mux |-> 0,
          diag |-> "invalid memory address or nil pointer dereference"]
    ELSE ComposeRegistered(muxes, r1, f,
             WrapAndRegister(f.mem.routes, f.s, wrap,
                 Register(IF r1.mux = 0 THEN <<>> ELSE muxes[r1.mux],
                          Elems(WrapElems(f.mem.routes, f.s, wrap), f.s))))

\* r.Compose after r = r.Add(v...) has returned added.
ComposeAdded(muxes, added) ==
    IF added.diag # ""
    THEN [mem |-> added.mem, muxes |-> muxes, s |-> NilSlice, mux |-> 0,
          diag |-> added.diag]
    ELSE ComposeFlat(muxes, added.c,
                     composeGroups(added.mem, added.c.routes,
                                   Elems(added.mem.groups, added.c.groups), MaxDepth),
                     Elems(added.mem.mwares, added.c.wrap))

\* r.Compose(v...): the memory and the muxes after it, the flat list it built,
\* the mux it returns, and the diagnostic if the process ends instead.
Compose(M, muxes, r, v) == ComposeAdded(muxes, RouterAdd(M, r, v))

\* r.Serve() on Routes: the muxes after it, the new mux it returns, and the panic
\* that ended it, if any.
Serve(M, muxes, r) ==
    LET g == Register(<<>>, Elems(M.routes, r))
    IN  [muxes |-> Append(muxes, g.regs), mux |-> Len(muxes) + 1, diag |-> g.diag]

-----------------------------------------------------------------------------
(* The caller: one action per call of the package. *)

Memory0 == [routes |-> <<>>, groups |-> <<>>, mwares |-> <<>>]

NoCall == [op |-> "none", dst |-> "", src |-> "", args |-> <<>>, res |-> NilSlice]

Call(op, dst, src, args, res) ==
    [op |-> op, dst |-> dst, src |-> src, args |-> args, res |-> res]

\* The middleware lists a caller passes.
MwArgs == SeqUpTo(Mwares, MaxMw)

\* The routes a caller writes in place as Handle(p, h): one per pattern.
RouteArgs ==
    {Handle(p, [type |-> "http.HandlerFunc", id |-> "h2"], <<>>).route : p \in Patterns}

Running(max) == exit = "" /\ calls < max

\* route[dst] = Handle(p, h, mw...); the call's result records the middleware
\* Handle has called.
DoHandle(dst, p, h, mw, max) ==
    /\ Running(max)
    /\ LET got == Handle(p, h, mw)
       IN  /\ route' = IF got.ok THEN [route EXCEPT ![dst] = got.route] ELSE route
           /\ exit' = IF got.ok THEN "" ELSE got.diag
    /\ calls' = calls + 1
    /\ last' = Call("Handle", dst, "", <<p, h, mw>>, Handle(p, h, mw).applied)
    /\ UNCHANGED <<mem, routes, group, router, mux>>

\* Route.Wrap with a pointer receiver: the wrapped handler is stored in the receiver too.
DoRouteWrapPointer(dst, src, mw, max) ==
    /\ Running(max)
    /\ route' = [v \in RouteVars |->
                    IF v \in {dst, src} THEN RouteWrap(route[src], mw) ELSE route[v]]
    /\ calls' = calls + 1
    /\ last' = Call("Route.Wrap", dst, src, mw, NilSlice)
    /\ UNCHANGED <<mem, routes, group, router, mux, exit>>

\* route[dst] = route[src].Wrap(mw...)
DoRouteWrap(dst, src, mw, max) ==
    /\ Running(max)
    /\ route' = [route EXCEPT ![dst] = RouteWrap(route[src], mw)]
    /\ calls' = calls + 1
    /\ last' = Call("Route.Wrap", dst, src, mw, NilSlice)
    /\ UNCHANGED <<mem, routes, group, router, mux, exit>>

\* routes[dst] = Routes{rs[1], rs[2], ...}
DoRoutesLiteral(dst, rs, max) ==
    /\ Running(max)
    /\ LET lit == literal(mem.routes, rs)
       IN  /\ mem' = [mem EXCEPT !.routes = lit.arrs]
           /\ routes' = [routes EXCEPT ![dst] = lit.s]
    /\ calls' = calls + 1
    /\ last' = Call("Routes{}", dst, "", rs, NilSlice)
    /\ UNCHANGED <<route, group, router, mux, exit>>

\* routes[dst] = routes[src].Wrap(mw...)
DoRoutesWrap(dst, src, mw, max) ==
    /\ Running(max)
    /\ LET w == RoutesWrap(mem, routes[src], mw)
       IN  /\ mem' = w.mem
           /\ routes' = [routes EXCEPT ![dst] = w.s]
    /\ calls' = calls + 1
    /\ last' = Call("Routes.Wrap", dst, src, mw, NilSlice)
    /\ UNCHANGED <<route, group, router, mux, exit>>

\* group[dst] = group[src].Wrap(mw...)
DoGroupWrap(dst, src, mw, max) ==
    /\ Running(max)
    /\ LET w == GroupWrap(mem, group[src], mw)
       IN  /\ mem' = w.mem
           /\ group' = [group EXCEPT ![dst] = w.g]
    /\ calls' = calls + 1
    /\ last' = Call("Group.Wrap", dst, src, mw, NilSlice)
    /\ UNCHANGED <<route, routes, router, mux, exit>>

\* group[dst] = group[src].Add(v...)
DoGroupAdd(dst, src, v, max) ==
    /\ Running(max)
    /\ LET a == GroupAdd(mem, group[src], v)
       IN  /\ mem' = a.mem
           /\ group' = IF a.diag = "" THEN [group EXCEPT ![dst] = a.c] ELSE group
           /\ exit' = a.diag
    /\ calls' = calls + 1
    /\ last' = Call("Group.Add", dst, src, v, NilSlice)
    /\ UNCHANGED <<route, routes, router, mux>>

\* group[src].compose()
DoGroupCompose(src, max) ==
    /\ Running(max)
    /\ LET c == compose(mem, group[src], MaxDepth)
       IN  /\ mem' = c.mem
           /\ exit' = IF c.ok THEN "" ELSE "stack overflow"
           /\ last' = Call("Group.compose", "", src, <<>>, c.s)
    /\ calls' = calls + 1
    /\ UNCHANGED <<route, routes, group, router, mux>>

\* router[dst] = router[src].Wrap(mw...)
DoRouterWrap(dst, src, mw, max) ==
    /\ Running(max)
    /\ LET w == RouterWrap(mem, router[src], mw)
       IN  /\ mem' = w.mem
           /\ router' = [router EXCEPT ![dst] = w.r]
    /\ calls' = calls + 1
    /\ last' = Call("Router.Wrap", dst, src, mw, NilSlice)
    /\ UNCHANGED <<route, routes, group, mux, exit>>

\* router[dst] = router[src].Add(v...)
DoRouterAdd(dst, src, v, max) ==
    /\ Running(max)
    /\ LET a == RouterAdd(mem, router[src], v)
       IN  /\ mem' = a.mem
           /\ router' = IF a.diag = "" THEN [router EXCEPT ![dst] = a.c] ELSE router
           /\ exit' = a.diag
    /\ calls' = calls + 1
    /\ last' = Call("Router.Add", dst, src, v, NilSlice)
    /\ UNCHANGED <<route, routes, group, mux>>

\* router[src].Set(http.NewServeMux())
DoRouterSet(src, max) ==
    /\ Running(max)
    /\ mux' = Append(mux, <<>>)
    /\ router' = [router EXCEPT ![src] = Set(@, Len(mux) + 1)]
    /\ calls' = calls + 1
    /\ last' = Call("Router.Set", "", src, <<>>, NilSlice)
    /\ UNCHANGED <<mem, route, routes, group, exit>>

\* router[src].Compose(v...)
DoRouterCompose(src, v, max) ==
    /\ Running(max)
    /\ LET c == Compose(mem, mux, router[src], v)
       IN  /\ mem' = c.mem
           /\ mux' = c.muxes
           /\ exit' = c.diag
           /\ last' = Call("Router.Compose", "", src, v, c.s)
    /\ calls' = calls + 1
    /\ UNCHANGED <<route, routes, group, router>>

-----------------------------------------------------------------------------
(* The specifications. *)

\* Every Router variable starts as NewRouter(), each over a ServeMux of its own.
MuxOf == [v \in RouterVars |-> CASE v = "x" -> 1 [] v = "y" -> 2 [] OTHER -> 3]

Init ==
    /\ mem = Memory0
    /\ route = [v \in RouteVars |-> ZeroRoute]
    /\ routes = [v \in RoutesVars |-> NilSlice]
    /\ group = [v \in GroupVars |-> ZeroGroup]
    /\ router = [v \in RouterVars |-> NewRouter(MuxOf[v])]
    /\ mux = [i \in 1..Cardinality(RouterVars) |-> <<>>]
    /\ exit = ""
    /\ calls = 0
    /\ last = NoCall

\* A caller of Handle, Route.Wrap and the Routes collection.
NextRoute ==
    \/ \E p \in Patterns, h \in HandlerInputs, mw \in MwArgs :
          DoHandle("r", p, h, mw, MaxRouteCalls)
    \/ \E dst \in RouteVars, mw \in MwArgs :
          DoRouteWrap(dst, "r", mw, MaxRouteCalls)
    \/ \E rs \in SeqUpTo(RouteArgs, 2) \ {<<>>} :
          DoRoutesLiteral("rs", rs, MaxRouteCalls)
    \/ \E dst \in RoutesVars, mw \in MwArgs :
          DoRoutesWrap(dst, "rs", mw, MaxRouteCalls)

SpecRoute == Init /\ [][NextRoute]_vars

\* A caller of Handle that passes values of every type.
NextHandle ==
    \E p \in Patterns, h \in HandlerInputs \cup OtherHandlerInputs, mw \in MwArgs :
        DoHandle("r", p, h, mw, MaxRouteCalls)

SpecHandle == Init /\ [][NextHandle]_vars

\* The arguments of Add: values with their dynamic type.
RouteArg(r) == [type |-> "Route", val |-> r]
GroupArg(v) == [type |-> "Group", val |-> group[v]]

\* Add(Handle(p, h)) for each pattern p.
RouteListArgs == {<<RouteArg(r)>> : r \in RouteArgs}

\* Add(r, r, r) for r = Handle("/a", h).
RouteTripleArgs ==
    {<<RouteArg(r), RouteArg(r), RouteArg(r)>> : r \in {r \in RouteArgs : r.pattern = "/a"}}

\* Add(a, a) and Add(a, c)
GroupListArgs ==
    {<<GroupArg("a"), GroupArg("a")>>, <<GroupArg("a"), GroupArg("c")>>}

\* The middleware a caller wraps Group v with.
GroupMwares(v) == IF v = "b" THEN Mwares ELSE {"m1"}

\* A caller that builds the groups a and c from b, adds them to b and composes b.
NextGroup ==
    \/ \E dst \in GroupVars, v \in RouteListArgs :
          /\ group["b"].routes.len + Len(v) <= MaxRoutes
          /\ DoGroupAdd(dst, "b", v, MaxGroupCalls)
    \/ \E v \in RouteTripleArgs :
          /\ group["b"].routes.len + Len(v) <= MaxRoutes
          /\ DoGroupAdd("b", "b", v, MaxGroupCalls)
    \/ \E v \in GroupListArgs :
          DoGroupAdd("b", "b", v, MaxGroupCalls)
    \/ \E dst \in {"a", "b"} : \E m \in GroupMwares(dst) :
          DoGroupWrap(dst, dst, <<m>>, MaxGroupCalls)
    \/ DoGroupCompose("b", MaxGroupCalls)

SpecGroup == Init /\ [][NextGroup]_vars

\* The middleware the caller of SpecRouter declares on a Group, never on a Router.
GroupOnlyMwares == {"g1"}

\* Compose() and Compose(a)
ComposeArgs == {<<>>, <<GroupArg("a")>>}

\* A caller that builds the Group a and the Router x, composes x and y, and gives
\* x a new ServeMux.
NextRouter ==
    \/ \E v \in RouteListArgs :
          /\ group["a"].routes.len + Len(v) <= MaxRoutes
          /\ DoGroupAdd("a", "a", v, MaxRouterCalls)
    \/ \E m \in GroupOnlyMwares :
          DoGroupWrap("a", "a", <<m>>, MaxRouterCalls)
    \/ \E v \in RouteListArgs \cup {<<GroupArg("a")>>} :
          /\ router["x"].routes.len + Len(v) <= MaxRoutes
          /\ DoRouterAdd("x", "x", v, MaxRouterCalls)
    \/ \E m \in Mwares :
          DoRouterWrap("x", "x", <<m>>, MaxRouterCalls)
    \/ \E src \in {"x", "y"}, v \in ComposeArgs :
          DoRouterCompose(src, v, MaxRouterCalls)
    \/ DoRouterSet("x", MaxRouterCalls)

SpecRouter == Init /\ [][NextRouter]_vars

\* A caller that builds the Group a and the Router x and composes x.
NextCompose ==
    \/ \E v \in RouteListArgs :
          /\ group["a"].routes.len + Len(v) <= MaxRoutes
          /\ DoGroupAdd("a", "a", v, MaxRouterCalls)
    \/ \E m \in GroupOnlyMwares :
          DoGroupWrap("a", "a", <<m>>, MaxRouterCalls)
    \/ \E v \in RouteListArgs \cup {<<GroupArg("a")>>} :
          /\ router["x"].routes.len + Len(v) <= MaxRoutes
          /\ DoRouterAdd("x", "x", v, MaxRouterCalls)
    \/ DoRouterWrap("x", "x", <<"m1">>, MaxRouterCalls)
    \/ \E v \in ComposeArgs : DoRouterCompose("x", v, MaxRouterCalls)

SpecCompose == Init /\ [][NextCompose]_vars

\* Arguments of Add that are neither Groups nor Routes.
StringArg == [type |-> "string", val |-> "/a"]
IntArg == [type |-> "int", val |-> "7"]
HandlerFuncArg == [type |-> "http.HandlerFunc", val |-> "h2"]

\* A []Route argument: the routes the Group a holds.
RouteSliceArg == [type |-> "[]Route", val |-> group["a"].routes]

\* The values a caller passes to Group.Add and to Router.Add.
GroupAddInputs ==
    {RouteArg(r) : r \in {r \in RouteArgs : r.pattern = "/a"}}
        \cup {GroupArg("a"), StringArg, IntArg}
RouterAddInputs ==
    {RouteArg(r) : r \in {r \in RouteArgs : r.pattern = "/a"}}
        \cup {RouteSliceArg, StringArg, HandlerFuncArg}

\* A caller that passes every mix of arguments to Group.Add and Router.Add.
NextAdd ==
    \/ \E v \in SeqUpTo(GroupAddInputs, MaxAddArgs) \ {<<>>} :
          DoGroupAdd("a", "a", v, MaxAddCalls)
    \/ \E v \in SeqUpTo(RouterAddInputs, MaxAddArgs) \ {<<>>} :
          DoRouterAdd("x", "x", v, MaxAddCalls)

SpecAdd == Init /\ [][NextAdd]_vars

\* The ports Redirect is configured with and the requests its handler serves.
HttpPorts ==
    {<<>>,
     <<":", "8", "0">>,
     <<":", "8", "0", "8", "0">>}
HttpsPorts ==
    {<<>>,
     <<":", "4", "4", "3">>,
     <<":", "8", "4", "4", "3">>}
Hosts ==
    {<<"l", "o", "c", "a", "l", "h", "o", "s", "t">>,
     <<"l", "o", "c", "a", "l", "h", "o", "s", "t", ":", "8", "0">>,
     <<"l", "o", "c", "a", "l", "h", "o", "s", "t", ":", "8", "0", "8", "0">>,
     <<"e", "x", "a", "m", "p", "l", "e", ".", "c", "o", "m">>,
     <<"e", "x", "a", "m", "p", "l", "e", ".", "c", "o", "m", ":", "8", "0">>}
Paths ==
    {<<>>,
     <<"/">>,
     <<"/", "a">>}
RawQueries ==
    {<<>>,
     <<"q", "=", "1">>,
     <<"a", "=", "1", "&", "b", "=", "2">>}
Requests == [Host : Hosts, Path : Paths, RawQuery : RawQueries]

\* Redirect(HTTP, HTTPS)(res, req)
DoRedirect(HTTP, HTTPS, req, max) ==
    /\ Running(max)
    /\ calls' = calls + 1
    /\ last' = Call("Redirect", "", "", <<HTTP, HTTPS, req>>, Redirect(HTTP, HTTPS, req))
    /\ UNCHANGED <<mem, route, routes, group, router, mux, exit>>

\* A server whose redirect handler serves requests.
NextRedirect ==
    \E HTTP \in HttpPorts, HTTPS \in HttpsPorts, req \in Requests :
        DoRedirect(HTTP, HTTPS, req, MaxRequests)

SpecRedirect == Init /\ [][NextRedirect]_vars

-----------------------------------------------------------------------------
(* Properties of Route and Routes, checked under SpecRoute (C13: SpecHandle). *)

\* The execution order of the onion mn(...(m1(h))): the pre-logic of mn down to
\* m1, then h, then the post-logic of m1 up to mn.
Onion(h, mw) ==
    LET n == Len(mw)
    IN  [i \in 1..(2 * n + 1) |->
            IF i <= n THEN [ev |-> "pre", by |-> mw[n + 1 - i]]
            ELSE IF i = n + 1 THEN [ev |-> "serve", by |-> h]
            ELSE [ev |-> "post", by |-> mw[i - n - 1]]]

\* C1: after Handle(p, h, m1, ..., mn) has returned, a request to the Route's
\* handler runs mn's pre-logic first, down to m1's, then h exactly once, then
\* m1's post-logic up to mn's; the Route carries the pattern p.
C1_HandleWrapOrder ==
    (last.op = "Handle" /\ exit = "") =>
        /\ route[last.dst].pattern = last.args[1]
        /\ Run(route[last.dst].fn) = Onion(last.args[2].id, last.args[3])

\* Handle has returned a Route built with two different middleware.
C1_Witness ==
    /\ last.op = "Handle" /\ exit = ""
    /\ Len(last.args[3]) = 2
    /\ last.args[3][1] # last.args[3][2]

\* C13: Handle returns a Route for an http.Handler, an http.HandlerFunc and a
\* plain func(http.ResponseWriter, *http.Request), and for no other input: for
\* any other h the process exits with the diagnostic that names the type of h,
\* no middleware has been called and the caller has received no Route.
C13_HandleRejectsOtherTypes ==
    [][(last'.op = "Handle" /\ calls' = calls + 1) =>
          LET h == last'.args[2]
          IN  IF h.type \in {"http.Handler", "http.HandlerFunc",
                             "func(http.ResponseWriter, *http.Request)"}
              THEN /\ exit' = ""
                   /\ route'[last'.dst].fn.base = h.id
              ELSE /\ exit' = "require either http.Handler or http.HandlerFunc got: " \o h.type
                   /\ last'.res = <<>>
                   /\ route' = route]_vars

\* Handle has been called with a string for h and two middleware, and the
\* process has exited.
C13_Witness ==
    /\ last.op = "Handle"
    /\ last.args[2].type = "string"
    /\ Len(last.args[3]) = 2
    /\ exit # ""

\* C8: a step s = r.Wrap(mw...) gives s the pattern of r and the handler of r
\* further wrapped by mw, and leaves r with the pattern and handler it had.
C8_RouteWrapNewValue ==
    [][(last'.op = "Route.Wrap" /\ calls' = calls + 1) =>
          /\ route'[last'.dst].pattern = route[last'.src].pattern
          /\ route'[last'.dst].fn.base = route[last'.src].fn.base
          /\ route'[last'.dst].fn.chain = route[last'.src].fn.chain \o last'.args
          /\ (last'.dst # last'.src => route'[last'.src] = route[last'.src])]_vars

\* s = r.Wrap(mw...) has run on a Route r made by Handle, with mw not empty.
C8_Witness ==
    /\ last.op = "Route.Wrap"
    /\ last.dst # last.src
    /\ last.args # <<>>
    /\ route[last.src].fn.base # "nil"
    /\ route[last.dst].fn # route[last.src].fn

\* C9 as claimed: a step rs.Wrap(mw...) leaves every route held in rs with the
\* handler it had before the call.
C9_RoutesWrapLeavesReceiver ==
    [][(last'.op = "Routes.Wrap" /\ calls' = calls + 1) =>
          Elems(mem'.routes, routes[last'.src]) = Elems(mem.routes, routes[last'.src])]_vars

\* C10: wrapping with mw in one call gives what wrapping with any prefix of mw and
\* then with the rest gives, for a Route and for a Routes collection.
C10_WrapAssociative ==
    [][\A k \in 0..Len(last'.args) :
          LET mw == last'.args
              first == SubSeq(mw, 1, k)
              rest == SubSeq(mw, k + 1, Len(mw))
          IN  /\ (last'.op = "Route.Wrap" /\ calls' = calls + 1) =>
                    route'[last'.dst] = RouteWrap(RouteWrap(route[last'.src], first), rest)
              /\ (last'.op = "Routes.Wrap" /\ calls' = calls + 1) =>
                    LET w1 == RoutesWrap(mem, routes[last'.src], first)
                        w2 == RoutesWrap(w1.mem, w1.s, rest)
                    IN  Elems(mem'.routes, routes'[last'.dst]) = Elems(w2.mem.routes, w2.s)]_vars

\* A Routes collection that holds a route has been wrapped with two different
\* middleware in one call.
C10_Witness ==
    /\ last.op = "Routes.Wrap"
    /\ Len(last.args) = 2
    /\ last.args[1] # last.args[2]
    /\ routes[last.dst].len > 0

-----------------------------------------------------------------------------
(* Properties of Group, checked under SpecGroup. *)

\* The flat list the specification assigns to a Group seen as a tree: its direct
\* routes, then the flat list of each sub-group in declaration order, every
\* handler wrapped by the Group's middleware in declaration order.
RECURSIVE Flat(_)
RECURSIVE FlatAll(_)
FlatAll(views) ==
    IF views = <<>> THEN <<>> ELSE Flat(Head(views)) \o FlatAll(Tail(views))

Flat(view) ==
    LET all == view.routes \o FlatAll(view.groups)
    IN  [j \in 1..Len(all) |-> [all[j] EXCEPT !.fn = WrapFn(@, view.wrap)]]

PatternsOf(rs) == [j \in 1..Len(rs) |-> rs[j].pattern]
HandlersOf(rs) == [j \in 1..Len(rs) |-> rs[j].fn]

\* A step in which g.compose() returns, for g the Group variable last'.src.
ComposeStep == last'.op = "Group.compose" /\ calls' = calls + 1 /\ exit' = ""

\* C3 as claimed: the handlers of compose(g) are those of the tree g as it was
\* when compose was called: each route's own handler wrapped by the middleware of
\* its enclosing groups, innermost group first, each group's list once.
C3_GroupWrapLayers ==
    [][ComposeStep =>
          HandlersOf(Elems(mem'.routes, last'.res)) =
              HandlersOf(Flat(View(mem, group[last'.src], MaxDepth)))]_vars

\* C4 as claimed: the patterns of compose(g) are those of g's direct routes
\* followed by those of each sub-group's flat list, in declaration order.
C4_ComposeOrder ==
    [][ComposeStep =>
          PatternsOf(Elems(mem'.routes, last'.res)) =
              PatternsOf(Flat(View(mem, group[last'.src], MaxDepth)))]_vars

\* C5 as claimed: a second g.compose() right after a first returns the same
\* sequence of (pattern, handler) pairs as the first returned.
C5_ComposeTwice ==
    [][(ComposeStep /\ last.op = "Group.compose" /\ last.src = last'.src) =>
          Elems(mem'.routes, last'.res) = Elems(mem.routes, last.res)]_vars

\* C15 as claimed: g.compose() leaves every Group variable of the caller with
\* the routes, handlers, sub-groups and middleware it had, and the list it
\* returns is freshly built: it shares no backing array with the memory as it
\* was before the call.
C15_ComposeLeavesReceiver ==
    [][ComposeStep =>
          /\ \A v \in GroupVars :
                View(mem', group'[v], MaxDepth) = View(mem, group[v], MaxDepth)
          /\ (last'.res.len > 0 => last'.res.arr > Len(mem.routes))]_vars

\* How many entries of the route list rs carry pattern p.
Count(rs, p) == Cardinality({j \in 1..Len(rs) : rs[j].pattern = p})

\* C16 as claimed: compose(g) has one entry per route occurrence in the tree g,
\* and as many entries with each pattern as the tree has route occurrences with
\* that pattern: no route is dropped or invented and no pattern is altered.
C16_ComposeKeepsRoutes ==
    [][ComposeStep =>
          LET tree == Flat(View(mem, group[last'.src], MaxDepth))
              flat == Elems(mem'.routes, last'.res)
          IN  /\ Len(flat) = Len(tree)
              /\ \A p \in Patterns : Count(flat, p) = Count(tree, p)]_vars

\* The tree a Group is after the arguments v of Add are appended to the tree b.
RECURSIVE Added(_, _, _)
Added(M, b, v) ==
    IF v = <<>> THEN b
    ELSE LET x == Head(v)
             next == IF x.type = "Route"
                     THEN [b EXCEPT !.routes = Append(@, x.val)]
                     ELSE [b EXCEPT !.groups = Append(@, View(M, x.val, MaxDepth))]
         IN  Added(M, next, Tail(v))

\* C7 as claimed, for Group: a step y = b.Add(v...) or y = b.Wrap(mw...) leaves
\* every other Group variable with the routes, sub-groups and middleware it
\* had, and y is b with v (or mw) appended.
C7_BuildersDoNotAlias ==
    [][(last'.op \in {"Group.Add", "Group.Wrap"} /\ calls' = calls + 1 /\ exit' = "") =>
          LET before == View(mem, group[last'.src], MaxDepth)
          IN  /\ \A v \in GroupVars \ {last'.dst} :
                    View(mem', group'[v], MaxDepth) = View(mem, group[v], MaxDepth)
              /\ View(mem', group'[last'.dst], MaxDepth) =
                    IF last'.op = "Group.Add" THEN Added(mem, before, last'.args)
                    ELSE [before EXCEPT !.wrap = @ \o last'.args]]_vars

-----------------------------------------------------------------------------
(* Properties of Router, checked under SpecRouter (C11 and C18: SpecCompose). *)

\* A step in which r.Compose(v...) returns, for r the Router variable last'.src.
RouterComposeStep == last'.op = "Router.Compose" /\ calls' = calls + 1 /\ exit' = ""

\* The pairs a Router.Compose step registers with its mux.
Registered ==
    LET m == router[last'.src].mux
    IN  SubSeq(mux'[m], Len(mux[m]) + 1, Len(mux'[m]))

\* C2 as claimed: in every handler Router.Compose registers, the outermost layers
\* are the Router's middleware in declaration order, and no Router middleware
\* occurs beneath them: each is applied exactly once.  (The caller of SpecRouter
\* declares the middleware of Mwares on Routers only.)
C2_RouterWrapOutermostOnce ==
    [][RouterComposeStep =>
          LET W == Elems(mem'.mwares, router[last'.src].wrap)
          IN  \A j \in 1..Len(Registered) :
                 LET chain == Registered[j].fn.chain
                     n == Len(chain) - Len(W)
                 IN  /\ n >= 0
                     /\ SubSeq(chain, n + 1, Len(chain)) = W
                     /\ \A i \in 1..n : chain[i] \notin Mwares]_vars

\* C6 as claimed: two Router.Compose calls in a row on Routers that hold the
\* same groups, routes and middleware, with the same arguments, each into an
\* empty mux, build the same flat list of (pattern, handler) pairs.
C6_RouterComposeDeterministic ==
    [][(/\ RouterComposeStep
        /\ last.op = "Router.Compose"
        /\ last.args = last'.args
        /\ [router[last.src] EXCEPT !.mux = 0] = [router[last'.src] EXCEPT !.mux = 0]
        /\ mux[router[last'.src].mux] = <<>>
        /\ mux[router[last.src].mux] = Elems(mem.routes, last.res)) =>
          Elems(mem'.routes, last'.res) = Elems(mem.routes, last.res)]_vars

\* The tree Router r is once the Groups v are added to it.
RouterView(M, r, v) ==
    LET gs == Elems(M.groups, r.groups)
    IN  [routes |-> Elems(M.routes, r.routes),
         groups |-> [i \in 1..Len(gs) |-> View(M, gs[i], MaxDepth)]
                       \o [i \in 1..Len(v) |-> View(M, v[i].val, MaxDepth)],
         wrap |-> Elems(M.mwares, r.wrap)]

\* How many times middleware m occurs in a wrap chain.
Layers(chain, m) == Cardinality({i \in 1..Len(chain) : chain[i] = m})

\* The tree view with every route's handler replaced by its base handler: what
\* Flat gives for it are the layers the enclosing groups declare.
RECURSIVE Bare(_)
Bare(view) ==
    [routes |-> [j \in 1..Len(view.routes) |->
                    [view.routes[j] EXCEPT !.fn.chain = <<>>]],
     groups |-> [i \in 1..Len(view.groups) |-> Bare(view.groups[i])],
     wrap |-> view.wrap]

\* C17 as claimed: the handler Router.Compose registers for a route occurrence
\* carries each group middleware as many times as it is declared on the groups
\* that enclose the occurrence in the Router's tree, and no other group
\* middleware.  (The routes of SpecRouter are built by Handle without middleware
\* and its caller declares GroupOnlyMwares on Groups only.)
C17_MiddlewareScoping ==
    [][RouterComposeStep =>
          LET declared == Flat(Bare(RouterView(mem, router[last'.src], last'.args)))
          IN  /\ Len(Registered) = Len(declared)
              /\ \A j \in 1..Len(Registered) : \A m \in GroupOnlyMwares :
                    Layers(Registered[j].fn.chain, m) = Layers(declared[j].fn.chain, m)]_vars

\* A step in which r.Compose(v...) is called, whether it returns or panics.
RouterComposeCall == last'.op = "Router.Compose" /\ calls' = calls + 1

\* The handler a mux that holds regs serves pattern p with, under the rule that
\* the last registration of a pattern wins.
MuxHandler(regs, p) ==
    LET at == {i \in 1..Len(regs) : regs[i].pattern = p}
    IN  regs[CHOOSE i \in at : \A k \in at : k <= i].fn

-----------------------------------------------------------------------------
(* Properties of Add, checked under SpecAdd. *)

\* The types of the arguments Add appends.
ValidAddTypes == {"Route", "Group", "[]Route", "[]Group"}

\* C12: a call of Group.Add or Router.Add whose arguments hold a string among
\* valid Groups and Routes ends the process with the diagnostic that refers to
\* Handle, and no Group or Router is returned to the caller.
C12_StringToAddIsFatal ==
    [][(/\ last'.op \in {"Group.Add", "Router.Add"}
        /\ calls' = calls + 1
        /\ \E i \in 1..Len(last'.args) : last'.args[i].type = "string"
        /\ \A i \in 1..Len(last'.args) :
              last'.args[i].type \in ValidAddTypes \cup {"string"}) =>
          /\ exit' = IF last'.op = "Group.Add" THEN "use srv.Handle() to add an endpoint"
                     ELSE "use srv.Handle() to add endpoint"
          /\ group' = group
          /\ router' = router]_vars

\* Group.Add has been called with a string between a Group and a Route.
C12_Witness ==
    /\ last.op = "Group.Add"
    /\ Len(last.args) = 3
    /\ last.args[1].type = "Group"
    /\ last.args[2].type = "string"
    /\ last.args[3].type = "Route"
    /\ exit # ""

-----------------------------------------------------------------------------
(* Properties of Redirect, checked under SpecRedirect. *)

\* C14: the redirect handler answers 307 with the target https://<host><path>
\* followed by "?" and the raw query exactly when the raw query is not empty; the
\* host is "localhost"+HTTPS exactly when the request's host is "localhost"+HTTP
\* and the request's host otherwise; no target ends in "?".
C14_RedirectTarget ==
    last.op = "Redirect" =>
        LET HTTP == last.args[1]
            HTTPS == last.args[2]
            req == last.args[3]
            loc == last.res.location
            host == IF req.Host = Localhost \o HTTP THEN Localhost \o HTTPS ELSE req.Host
            n == Len(HttpsScheme) + Len(host) + Len(req.Path)
        IN  /\ last.res.status = 307
            /\ Len(loc) >= n
            /\ SubSeq(loc, 1, Len(HttpsScheme)) = HttpsScheme
            /\ SubSeq(loc, Len(HttpsScheme) + 1, Len(HttpsScheme) + Len(host)) = host
            /\ SubSeq(loc, Len(HttpsScheme) + Len(host) + 1, n) = req.Path
            /\ (req.Host # Localhost \o HTTP => last.res.host = req.Host)
            /\ (req.RawQuery = <<>> <=> Len(loc) = n)
            /\ (req.RawQuery # <<>> =>
                   /\ loc[n + 1] = "?"
                   /\ SubSeq(loc, n + 2, Len(loc)) = req.RawQuery)
            /\ loc[Len(loc)] # "?"

\* The handler has served a request to "localhost"+HTTP that has no query, with
\* an HTTPS port that differs from HTTP.
C14_Witness ==
    /\ last.op = "Redirect"
    /\ last.args[3].Host = Localhost \o last.args[1]
    /\ last.args[1] # last.args[2]
    /\ last.args[3].RawQuery = <<>>
    /\ last.args[3].Path # <<>>

\* The flat list g.Add(v...) composes to, from memory M.
GroupAddCompose(M, g, v) ==
    LET a == GroupAdd(M, g, v)
        c == compose(a.mem, a.c, MaxDepth)
    IN  Elems(c.mem.routes, c.s)

\* The flat list g.Add(v...).Wrap(mw...) composes to, from memory M.
GroupAddWrapCompose(M, g, mw, v) ==
    LET a == GroupAdd(M, g, v)
        w == GroupWrap(a.mem, a.c, mw)
        c == compose(w.mem, w.g, MaxDepth)
    IN  Elems(c.mem.routes, c.s)

\* What r.Add(v...).Compose() registers with a new ServeMux, from memory M.
RouterAddCompose(M, r, v) ==
    LET a == RouterAdd(M, r, v)
        c == Compose(a.mem, <<<<>>>>, Set(a.c, 1), <<>>)
    IN  [regs |-> c.muxes[1], diag |-> c.diag]

\* What r.Add(v...).Wrap(mw...).Compose() registers with a new ServeMux, from memory M.
RouterAddWrapCompose(M, r, mw, v) ==
    LET a == RouterAdd(M, r, v)
        w == RouterWrap(a.mem, a.c, mw)
        c == Compose(w.mem, <<<<>>>>, Set(w.r, 1), <<>>)
    IN  [regs |-> c.muxes[1], diag |-> c.diag]

\* What a caller adds after a Wrap: a route, or the Group a.
AddedAfterWrap == {v \in RouteListArgs : v[1].val.pattern = "/b"} \cup {<<GroupArg("a")>>}

\* C18: after a step g2 = g.Wrap(m) on a Group or a Router, g2.Add(x) composes
\* to the same flat list of (pattern, handler) pairs as g.Add(x).Wrap(m) does
\* from the state before the step, for x a route or a Group; and on a Group, m is
\* the outermost layer of every entry of that list, the routes x contributes
\* included.
C18_WrapAddCommute ==
    [][(last'.op \in {"Group.Wrap", "Router.Wrap"} /\ calls' = calls + 1) =>
          \A v \in AddedAfterWrap :
              IF last'.op = "Group.Wrap"
              THEN LET flat == GroupAddCompose(mem', group'[last'.dst], v)
                   IN  /\ flat = GroupAddWrapCompose(mem, group[last'.src], last'.args, v)
                       /\ \A j \in 1..Len(flat) :
                             /\ flat[j].fn.chain # <<>>
                             /\ flat[j].fn.chain[Len(flat[j].fn.chain)] = last'.args[1]
              ELSE RouterAddCompose(mem', router'[last'.dst], v) =
                      RouterAddWrapCompose(mem, router[last'.src], last'.args, v)]_vars

\* The Group a and the Router x each hold a route and middleware of their own,
\* and the last call has declared middleware on the Router.
C18_Witness ==
    /\ last.op = "Router.Wrap"
    /\ exit = ""
    /\ group["a"].routes.len > 0 /\ group["a"].wrap.len > 0
    /\ router["x"].routes.len > 0 /\ router["x"].groups.len > 0

=============================================================================
